---- MODULE Spec2Model ----
(***************************************************************************)
(* A model of src/parser/inc_to_json.py: the extractor that turns          *)
(* SourcePawn include files into API entries.                              *)
(*                                                                         *)
(* Text is modelled as a sequence of tokens.  A token is a maximal run of  *)
(* non-blank characters of the source text; two neighbouring tokens are    *)
(* separated by exactly one blank, except that the tokens "\n" (a line     *)
(* break) and "\t" (leading indentation) stand for themselves and have no  *)
(* blank around them.  The regular expressions of the source are           *)
(* translated to matchers over such token sequences; the character classes *)
(* of the expressions are the token sets below.                            *)
(***************************************************************************)
EXTENDS Integers, Sequences, FiniteSets, TLC

VARIABLES
    \* parse_comment_block, called on its own
    comment_lines, parsed, cpc,
    \* parse_params_string, called on its own
    params_str, parsed_comment, param_list, ppc,
    \* parse_include_file, the loop over the comment blocks of one file
    content, filename, pos, api_entries, nblocks, fpc,
    \* main
    dir_exists, files, idx, all_api_data, output, writes, log, pc

vars == <<comment_lines, parsed, cpc,
          params_str, parsed_comment, param_list, ppc,
          content, filename, pos, api_entries, nblocks, fpc,
          dir_exists, files, idx, all_api_data, output, writes, log, pc>>

commentVars == <<comment_lines, parsed, cpc>>
paramVars   == <<params_str, parsed_comment, param_list, ppc>>
fileVars    == <<content, filename, pos, api_entries, nblocks, fpc>>
mainVars    == <<dir_exists, files, idx, all_api_data, output, writes, log, pc>>

-----------------------------------------------------------------------------
(* Bounds of the model                                                     *)

\* the longest comment body (in lines) parse_comment_block is given on its own
MaxLines == 3
\* the longest parameter list (in comma-separated pieces)
MaxParams == 3
\* the longest file (in segments of the catalogue below) given to parse_include_file
MaxSegs == 3
\* the most files a directory walk visits
MaxFiles == 3

-----------------------------------------------------------------------------
(* Tokens and the character classes of the regular expressions             *)

NL  == "\n"
TAB == "\t"

\* str.strip() and \s: the blank tokens
WS == {NL, TAB}

\* Python's None
None == <<"None">>

\* \w+ : the tokens made of word characters only
Words == {"a", "b", "c", "d", "x", "r", "n", "z", "int", "bool", "void", "float",
          "any", "const", "native", "stock", "forward", "public", "methodmap",
          "property", "typedef", "function", "DoX", "Go", "Foo", "Bar", "Cb",
          "Size", "Does", "the", "value", "true", "on", "success", "second",
          "more", "some", "prose", "bogus", "5"}

\* A token that begins with word characters and goes on with others:
\* <<the leading \w+, the rest>>
SplitTok(t) ==
    CASE t = "X."       -> <<"X", ".">>
      [] t = "vec[3]"   -> <<"vec", "[3]">>
      [] t = "char[]"   -> <<"char", "[]">>
      [] t = "Handle:h" -> <<"Handle", ":h">>
      [] t = "New:"     -> <<"New", ":">>
      [] OTHER          -> <<"", t>>

\* the longest prefix of token t matching \w+ ("" when there is none)
WordPrefix(t) == IF t \in Words THEN t ELSE SplitTok(t)[1]
\* what is left of token t after WordPrefix(t)
WordRest(t) == IF t \in Words THEN "" ELSE SplitTok(t)[2]

\* [\w:\[\]]+ : the type of a parameter
ParamTypeToks == Words \cup {"char[]", "Handle:h", "New:", "vec[3]"}
\* [\w:<>\[\]]+ : the return type of a function
RetTypeToks == ParamTypeToks \cup {"<"}
\* [\w:]+ : the return type of a typedef
TypedefTypeToks == Words \cup {"Handle:h", "New:"}

\* native|stock|forward|public
FuncKeywords == {"native", "stock", "forward", "public"}

\* the tokens beginning with '@' followed by a word
TagTokens == {"@param", "@return", "@note", "@error", "@see", "@deprecated",
              "@author", "@weird", "@x"}

\* the word after the '@' of a tag token
TagName(t) ==
    CASE t = "@param"      -> "param"
      [] t = "@return"     -> "return"
      [] t = "@note"       -> "note"
      [] t = "@error"      -> "error"
      [] t = "@see"        -> "see"
      [] t = "@deprecated" -> "deprecated"
      [] t = "@author"     -> "author"
      [] t = "@weird"      -> "weird"
      [] OTHER             -> "x"

-----------------------------------------------------------------------------
(* Strings as token sequences: strip, split, join                          *)

Last(s) == s[Len(s)]
Front(s) == SubSeq(s, 1, Len(s) - 1)

RECURSIVE LStrip(_)
LStrip(s) == IF s # <<>> /\ Head(s) \in WS THEN LStrip(Tail(s)) ELSE s

RECURSIVE RStrip(_)
RStrip(s) == IF s # <<>> /\ Last(s) \in WS THEN RStrip(Front(s)) ELSE s

\* str.strip()
Strip(s) == RStrip(LStrip(s))

\* str.split(sep): the pieces of s between the tokens sep (always at least one piece)
RECURSIVE SplitOn(_, _)
SplitOn(s, sep) ==
    IF \A i \in 1..Len(s) : s[i] # sep THEN <<s>>
    ELSE LET i == CHOOSE j \in 1..Len(s) : s[j] = sep /\ \A k \in 1..(j - 1) : s[k] # sep
         IN  <<SubSeq(s, 1, i - 1)>> \o SplitOn(SubSeq(s, i + 1, Len(s)), sep)

\* sep.join(lines), where sep is a sequence of tokens
RECURSIVE Join(_, _)
Join(lines, sep) ==
    IF lines = <<>> THEN <<>>
    ELSE IF Len(lines) = 1 THEN lines[1]
    ELSE lines[1] \o sep \o Join(Tail(lines), sep)

\* lines without its leading empty lines
RECURSIVE DropLeadingEmpty(_)
DropLeadingEmpty(lines) ==
    IF lines # <<>> /\ Head(lines) = <<>> THEN DropLeadingEmpty(Tail(lines)) ELSE lines

\* lines without its trailing empty lines
RECURSIVE DropTrailingEmpty(_)
DropTrailingEmpty(lines) ==
    IF lines # <<>> /\ Last(lines) = <<>> THEN DropTrailingEmpty(Front(lines)) ELSE lines

\* str.strip() of a text held as a sequence of stripped lines
StripLines(lines) == DropTrailingEmpty(DropLeadingEmpty(lines))

-----------------------------------------------------------------------------
(* parse_comment_block                                                     *)

\* One turn of the cleaning loop: the line stripped, without its leading "/**",
\* its trailing "*/" and one leading "*".  After a "/**" is cut the line starts
\* with the blank that followed it, so a "*" behind it is not a leading "*".
CleanLine(line) ==
    LET l1 == Strip(line)
        opened == l1 # <<>> /\ Head(l1) = "/**"
        l2 == IF opened THEN Tail(l1) ELSE l1
        l3 == IF l2 # <<>> /\ Last(l2) = "*/" THEN Front(l2) ELSE l2
        l4 == IF ~opened /\ l3 # <<>> /\ Head(l3) = "*" THEN Tail(l3) ELSE l3
    IN  Strip(l4)

\* full_comment, as its lines: "\n".join(clean_lines).strip()
FullComment(lines) == StripLines([i \in 1..Len(lines) |-> CleanLine(lines[i])])

\* a line of the comment body that begins with '@'
IsTagLine(l) == l # <<>> /\ Head(l) \in TagTokens

\* re.split(r'\n\s*@', full_comment, 1): the index of the first line that begins
\* with '@' and has a line break before it; 0 when there is none
SplitIndex(body) ==
    IF \E i \in 2..Len(body) : IsTagLine(body[i])
    THEN CHOOSE i \in 2..Len(body) :
            IsTagLine(body[i]) /\ \A k \in 2..(i - 1) : ~IsTagLine(body[k])
    ELSE 0

\* description = parts[0].strip()
Description(body) ==
    LET i == SplitIndex(body)
    IN  Join(StripLines(IF i = 0 THEN body ELSE SubSeq(body, 1, i - 1)), <<NL>>)

\* tags_str, as its lines: '@' + parts[1], or '' when the split found no tag
TagsStr(body) ==
    LET i == SplitIndex(body)
    IN  IF i = 0 THEN <<>> ELSE SubSeq(body, i, Len(body))

\* the number of lines of ls before its first line that begins with '@'
RECURSIVE UntilTagLine(_)
UntilTagLine(ls) ==
    IF ls = <<>> \/ IsTagLine(Head(ls)) THEN 0 ELSE 1 + UntilTagLine(Tail(ls))

\* re.finditer(r"(@(?P<tag>\w+))\s*(?P<content>.*?)(?=\n\s*@|$)", tags_str, re.DOTALL):
\* the matches, in order, each [tag, lines of the content].  tlines begins with
\* a line that begins with '@'.  The \s* behind the tag runs over line breaks:
\* when nothing follows the tag on its line, the content begins with the next
\* line that is not empty, whatever that line begins with, and it ends before
\* the next line beginning with '@' behind that.
RECURSIVE TagMatches(_)
TagMatches(tlines) ==
    IF tlines = <<>> THEN <<>>
    ELSE LET first == Tail(Head(tlines))
             after == IF first = <<>> THEN DropLeadingEmpty(Tail(tlines)) ELSE Tail(tlines)
             head == IF first # <<>> THEN <<first>>
                     ELSE IF after # <<>> THEN <<after[1]>> ELSE <<>>
             remaining == IF first = <<>> /\ after # <<>> THEN Tail(after) ELSE after
             n == UntilTagLine(remaining)
         IN  << [tag |-> TagName(Head(Head(tlines))),
                 lines |-> head \o SubSeq(remaining, 1, n)] >>
             \o TagMatches(SubSeq(remaining, n + 1, Len(remaining)))

\* ' '.join(line.strip() for line in content.strip().split('\n')): an empty line
\* inside the content leaves the empty token "" between two blanks
TagContent(lines) ==
    LET kept == StripLines(lines)
    IN  Join([i \in 1..Len(kept) |-> IF kept[i] = <<>> THEN <<"">> ELSE kept[i]], <<>>)

\* tags = {'param': [], 'error': [], 'note': [], 'return': ''}
\* (the keys deprecated, see and author are added with their first content, so one
\* of them holding the empty list stands for the key being absent)
EmptyTags == [param |-> <<>>, error |-> <<>>, note |-> <<>>, return |-> <<>>,
              deprecated |-> <<>>, see |-> <<>>, author |-> <<>>]

\* the body of the loop over the tag matches
ApplyTag(tags, m) ==
    LET c == TagContent(m.lines)
    IN  CASE m.tag = "param" ->
               \* re.match(r"(?P<name>\w+)\s*(?P<desc>.*)", content)
               IF c # <<>> /\ WordPrefix(c[1]) # ""
               THEN [tags EXCEPT !.param = Append(@,
                       [name |-> WordPrefix(c[1]),
                        description |-> (IF WordRest(c[1]) = "" THEN <<>>
                                         ELSE <<WordRest(c[1])>>) \o Tail(c)])]
               ELSE tags
          [] m.tag = "return"     -> [tags EXCEPT !.return = c]
          [] m.tag = "error"      -> [tags EXCEPT !.error = Append(@, c)]
          [] m.tag = "note"       -> [tags EXCEPT !.note = Append(@, c)]
          [] m.tag = "deprecated" -> [tags EXCEPT !.deprecated = Append(@, c)]
          [] m.tag = "see"        -> [tags EXCEPT !.see = Append(@, c)]
          [] m.tag = "author"     -> [tags EXCEPT !.author = Append(@, c)]
          [] OTHER -> tags

RECURSIVE ApplyTags(_, _)
ApplyTags(tags, ms) ==
    IF ms = <<>> THEN tags ELSE ApplyTags(ApplyTag(tags, Head(ms)), Tail(ms))

\* parse_comment_block(comment_lines)
ParseCommentBlock(lines) ==
    LET body == FullComment(lines)
    IN  [description |-> Description(body),
         tags |-> ApplyTags(EmptyTags, TagMatches(TagsStr(body)))]

-----------------------------------------------------------------------------
(* parse_params_string                                                     *)

\* a token without its leading '&' (the &? of the parameter pattern)
StripAmp(t) == IF t = "&c" THEN "c" ELSE t

\* s without its blank tokens: every separator of the parameter pattern is \s+ or \s*
NoWS(s) == SelectSeq(s, LAMBDA t : t \notin WS)

\* (?P<type>[\w:\[\]]+)\s+&?(?P<name>\w+)(?:\s*=\s*(?P<default>.*?))? matched at
\* token k of p: <<the groups>>, or <<>> for no match.  The lazy default group ends the pattern,
\* so it matches the empty text whenever the '=' is there.
TypeNameAt(p, k) ==
    IF Len(p) >= k + 1 /\ p[k] \in ParamTypeToks /\ WordPrefix(StripAmp(p[k + 1])) # ""
    THEN << [name |-> WordPrefix(StripAmp(p[k + 1])),
             type |-> p[k],
             default |-> IF WordRest(StripAmp(p[k + 1])) = ""
                            /\ Len(p) >= k + 2 /\ p[k + 2] = "="
                         THEN <<>> ELSE None] >>
    ELSE <<>>

\* re.match of the parameter pattern on one stripped piece: the optional
\* (?:const\s+)? is tried first and given up when the rest does not match
ParamMatch(piece) ==
    LET p == NoWS(piece)
    IN  IF Len(p) >= 1 /\ p[1] = "const" /\ TypeNameAt(p, 2) # <<>>
        THEN TypeNameAt(p, 2)
        ELSE TypeNameAt(p, 1)

\* comment_params.get(name, ""): the dict comprehension keeps the last tag of a name
RECURSIVE CommentParamGet(_, _)
CommentParamGet(ptags, name) ==
    IF ptags = <<>> THEN <<>>
    ELSE IF Last(ptags).name = name THEN Last(ptags).description
    ELSE CommentParamGet(Front(ptags), name)

\* a loop over the pieces that puts each parameter at the front of param_list
RECURSIVE ParamLoopPrepend(_, _, _)
ParamLoopPrepend(params, ptags, acc) ==
    IF params = <<>> THEN acc
    ELSE LET param == Strip(Head(params))
             match == ParamMatch(param)
         IN  IF param = <<>> \/ match = <<>>
             THEN ParamLoopPrepend(Tail(params), ptags, acc)
             ELSE ParamLoopPrepend(Tail(params), ptags,
                    <<[name |-> match[1].name, type |-> match[1].type,
                       default |-> match[1].default,
                       description |-> CommentParamGet(ptags, match[1].name)]>> \o acc)

\* the loop over the comma-separated pieces, appending to param_list
RECURSIVE ParamLoop(_, _, _)
ParamLoop(params, ptags, acc) ==
    IF params = <<>> THEN acc
    ELSE LET param == Strip(Head(params))
             match == ParamMatch(param)
         IN  IF param = <<>> \/ match = <<>>
             THEN ParamLoop(Tail(params), ptags, acc)
             ELSE ParamLoop(Tail(params), ptags,
                    Append(acc, [name |-> match[1].name, type |-> match[1].type,
                                 default |-> match[1].default,
                                 description |-> CommentParamGet(ptags, match[1].name)]))

\* parse_params_string(params_str, parsed_comment)
ParseParamsString(pstr, pc_) ==
    IF Strip(pstr) = <<>> THEN <<>>
    ELSE ParamLoop(SplitOn(pstr, ","), pc_.tags.param, <<>>)

-----------------------------------------------------------------------------
(* The regular expressions of parse_include_file                           *)

\* a blank that replaced a line break
SP == " "

\* token i of s, or "" past its end
Tok(s, i) == IF i \in 1..Len(s) THEN s[i] ELSE ""

\* the first index >= i of a token of s equal to t, or 0
RECURSIVE Find(_, _, _)
Find(s, i, t) ==
    IF i > Len(s) THEN 0 ELSE IF s[i] = t THEN i ELSE Find(s, i + 1, t)

\* \s*: the first index >= i of a token of s that is no blank (Len(s) + 1 if none)
RECURSIVE SkipWS(_, _)
SkipWS(s, i) ==
    IF i <= Len(s) /\ s[i] \in WS THEN SkipWS(s, i + 1) ELSE i

\* FUNC_REGEX from the return type on, the return type being token r of s:
\* (?P<return_type>[\w:<>\[\]]+)\s+(?P<name>\w+)\s*\((?P<params>.*?)\);
\* started by the keyword at token p.  <<the match>> or <<>>.
FuncTailAt(s, p, r) ==
    LET n == SkipWS(s, r + 1)
        o == SkipWS(s, n + 1)
        e == Find(s, o + 1, ");")
    IN  IF Tok(s, r) \in RetTypeToks /\ Tok(s, n) \in Words /\ Tok(s, o) = "(" /\ e # 0
        THEN << [start |-> p, end |-> e, type |-> s[p], return_type |-> s[r],
                 name |-> s[n], params |-> SubSeq(s, o + 1, e - 1)] >>
        ELSE <<>>

\* FUNC_REGEX matched with its keyword at token p of s: the optional (?:New:\s*)?
\* is tried first and given up when the rest does not match
FuncMatchAt(s, p) ==
    LET q == SkipWS(s, p + 1)
    IN  IF Tok(s, p) \notin FuncKeywords THEN <<>>
        ELSE IF Tok(s, q) = "New:" /\ FuncTailAt(s, p, SkipWS(s, q + 1)) # <<>>
        THEN FuncTailAt(s, p, SkipWS(s, q + 1))
        ELSE FuncTailAt(s, p, q)

\* ^ under re.MULTILINE: token p of s begins a line.  bol1 says whether the text
\* begins with its first token (a text cut out behind a token begins with the
\* blank between the two).
LineStart(s, p, bol1) == IF p = 1 THEN bol1 ELSE s[p - 1] = NL

\* FUNC_REGEX.search from token i on: the leftmost match, <<the match>> or <<>>
RECURSIVE FuncSearchFrom(_, _, _)
FuncSearchFrom(s, i, bol1) ==
    IF i > Len(s) THEN <<>>
    ELSE IF LineStart(s, i, bol1) /\ FuncMatchAt(s, i) # <<>> THEN FuncMatchAt(s, i)
    ELSE FuncSearchFrom(s, i + 1, bol1)

\* FUNC_REGEX.search(code_text)
FuncSearch(s, bol1) == FuncSearchFrom(s, 1, bol1)

\* FUNC_REGEX.finditer: the matches from token i on, left to right, none overlapping
RECURSIVE FuncFindAll(_, _, _)
FuncFindAll(s, i, bol1) ==
    LET m == FuncSearchFrom(s, i, bol1)
    IN  IF m = <<>> THEN <<>> ELSE m \o FuncFindAll(s, m[1].end + 1, bol1)

\* METHODMAP_REGEX.search(code_text): ^methodmap\s+(?P<name>\w+)(?:\s*<\s*(?P<inherits>\w+))?
\* without re.MULTILINE, so only at the start of the chunk.  <<the match>> or <<>>.
MethodmapMatch(s) ==
    LET n == SkipWS(s, 2)
        lt == SkipWS(s, n + 1)
        h == SkipWS(s, lt + 1)
        inh == WordRest(Tok(s, n)) = "" /\ Tok(s, lt) = "<" /\ WordPrefix(Tok(s, h)) # ""
    IN  IF Tok(s, 1) = "methodmap" /\ WordPrefix(Tok(s, n)) # ""
        THEN << [name |-> WordPrefix(s[n]),
                 inherits |-> IF inh THEN <<WordPrefix(s[h])>> ELSE None,
                 text |-> IF inh THEN SubSeq(s, 1, h - 1) \o <<WordPrefix(s[h])>>
                          ELSE SubSeq(s, 1, n - 1) \o <<WordPrefix(s[n])>>] >>
        ELSE <<>>

\* the first index k >= i with a line break at k and "};" right behind it, or 0
RECURSIVE FindClose(_, _)
FindClose(s, i) ==
    IF i >= Len(s) THEN 0
    ELSE IF s[i] = NL /\ s[i + 1] = "};" THEN i ELSE FindClose(s, i + 1)

\* re.search(r"methodmap\s+.+?\{(.+?)\n\};", code_text, re.DOTALL) on a chunk that
\* begins with a methodmap header: <<group 1>>, the body, or <<>> for no match.
\* The body is not empty, and ends before the first line that begins with "};".
FullMapMatch(s) ==
    LET b == Find(s, 2, "{")
        k == IF b = 0 THEN 0 ELSE FindClose(s, b + 2)
    IN  IF b # 0 /\ k # 0 THEN << SubSeq(s, b + 1, k - 1) >> ELSE <<>>

\* PROPERTY_REGEX.finditer(map_body):
\* ^\s*public\s+property\s+(?P<property_type>\w+)\s+(?P<name>\w+) without
\* re.MULTILINE, so ^ holds at the start of the body only: at most one match
PropertyMatches(body) ==
    LET a == SkipWS(body, 1)
        b == SkipWS(body, a + 1)
        t == SkipWS(body, b + 1)
        n == SkipWS(body, t + 1)
    IN  IF Tok(body, a) = "public" /\ Tok(body, b) = "property"
           /\ Tok(body, t) \in Words /\ WordPrefix(Tok(body, n)) # ""
        THEN << [property_type |-> body[t], name |-> WordPrefix(body[n])] >>
        ELSE <<>>

\* TYPEDEF_REGEX.search(code_text):
\* ^\s*typedef\s+(?P<name>\w+)\s*=\s*function\s+(?P<return_type>[\w:]+)\s*\((?P<params>.*?)\);
\* without re.MULTILINE (only at the start of the chunk) and without re.DOTALL
\* (no line break inside the parentheses).  <<the match>> or <<>>.
TypedefMatch(s) ==
    LET t == SkipWS(s, 1)
        n == SkipWS(s, t + 1)
        q == SkipWS(s, n + 1)
        f == SkipWS(s, q + 1)
        r == SkipWS(s, f + 1)
        o == SkipWS(s, r + 1)
        e == Find(s, o + 1, ");")
        nl == Find(s, o + 1, NL)
    IN  IF Tok(s, t) = "typedef" /\ Tok(s, n) \in Words /\ Tok(s, q) = "="
           /\ Tok(s, f) = "function" /\ Tok(s, r) \in TypedefTypeToks
           /\ Tok(s, o) = "(" /\ e # 0 /\ (nl = 0 \/ nl > e)
        THEN << [name |-> s[n], return_type |-> s[r],
                 params |-> SubSeq(s, o + 1, e - 1), text |-> SubSeq(s, t, e)] >>
        ELSE <<>>

\* the block pattern of parse_include_file, searched from token i of the content:
\* (?P<comment>/\*\*.+?\*/)\s*(?P<code>.*?)(?=/\*\*|$) with re.DOTALL.
\* <<[comment, code, next]>>, next being the token behind the match, or <<>>.
\* $ holds at the end of the content and before a line break that ends it.
BlockFrom(s, i) ==
    LET c == Find(s, i, "/**")
        e == IF c = 0 THEN 0 ELSE Find(s, c + 1, "*/")
        cs == SkipWS(s, e + 1)
        nx == Find(s, cs, "/**")
        dollar == IF Len(s) >= cs /\ s[Len(s)] = NL THEN Len(s) - 1 ELSE Len(s)
        ce == IF nx # 0 THEN nx - 1 ELSE dollar
    IN  IF c = 0 \/ e = 0 THEN <<>>
        ELSE << [comment |-> SubSeq(s, c, e), code |-> SubSeq(s, cs, ce), next |-> ce + 1] >>

-----------------------------------------------------------------------------
(* parse_include_file                                                      *)

\* content.replace('\r\n', '\n').replace('\r', '\n')
NormalizeEOL(s) == [i \in 1..Len(s) |-> IF s[i] \in {"\r\n", "\r"} THEN NL ELSE s[i]]

\* a replace that deletes the line breaks instead of putting blanks for them
ReplaceNLDrop(s) == SelectSeq(s, LAMBDA t : t # NL)

\* str.replace('\n', ' ')
ReplaceNL(s) == [i \in 1..Len(s) |-> IF s[i] = NL THEN SP ELSE s[i]]

\* {"tags": {"param": []}}: the comment the methods of a methodmap are parsed with
NoComment == [description |-> <<>>, tags |-> EmptyTags]

\* the entry of a function declaration: m is the match in text s
FunctionEntry(s, m, pcomment, fname) ==
    [name |-> m.name,
     type |-> m.type,
     source_file |-> fname,
     return_type |-> m.return_type,
     comment |-> pcomment.description,
     tags |-> pcomment.tags,
     params |-> ParseParamsString(m.params, pcomment),
     full_declaration |-> ReplaceNL(Strip(SubSeq(s, m.start, m.end)))]

\* one method of a methodmap: m is the match in the body
MethodEntry(body, m) ==
    [name |-> m.name,
     type |-> m.type,
     return_type |-> m.return_type,
     params |-> ParseParamsString(m.params, NoComment),
     full_declaration |-> ReplaceNL(Strip(SubSeq(body, m.start, m.end)))]

\* methods: one entry for each match of FUNC_REGEX.finditer(map_body)
Methods(body) ==
    LET ms == FuncFindAll(body, 1, FALSE)
    IN  [i \in 1..Len(ms) |-> MethodEntry(body, ms[i])]

\* properties: one entry for each match of PROPERTY_REGEX.finditer(map_body)
Properties(body) ==
    LET ps == PropertyMatches(body)
    IN  [i \in 1..Len(ps) |-> [name |-> ps[i].name, type |-> ps[i].property_type]]

\* the entry of a methodmap: m is the match of the header in the chunk
MethodmapEntry(code, m, pcomment, fname) ==
    LET full == FullMapMatch(code)
    IN  [name |-> m.name,
         type |-> "methodmap",
         source_file |-> fname,
         inherits |-> m.inherits,
         comment |-> pcomment.description,
         tags |-> pcomment.tags,
         methods |-> IF full = <<>> THEN <<>> ELSE Methods(full[1]),
         properties |-> IF full = <<>> THEN <<>> ELSE Properties(full[1]),
         full_declaration |-> Strip(m.text)]

\* the entry of a typedef: m is the match in the chunk
TypedefEntry(m, pcomment, fname) ==
    [name |-> m.name,
     type |-> "typedef",
     source_file |-> fname,
     return_type |-> m.return_type,
     comment |-> pcomment.description,
     tags |-> pcomment.tags,
     params |-> ParseParamsString(m.params, pcomment),
     full_declaration |-> Strip(m.text)]

\* a loop body that tries the methodmap header before the function pattern
ChunkKindMethodmapFirst(code) ==
    IF MethodmapMatch(code) # <<>> THEN "methodmap"
    ELSE IF FuncSearch(code, TRUE) # <<>> THEN "function"
    ELSE IF TypedefMatch(code) # <<>> THEN "typedef"
    ELSE "none"

\* which branch of the loop body a chunk takes: the three patterns are tried in
\* this order and the first that matches decides
ChunkKind(code) ==
    IF FuncSearch(code, TRUE) # <<>> THEN "function"
    ELSE IF MethodmapMatch(code) # <<>> THEN "methodmap"
    ELSE IF TypedefMatch(code) # <<>> THEN "typedef"
    ELSE "none"

\* the body of the loop over the blocks: what one block appends to api_entries
BlockEntries(block, fname) ==
    LET pcomment == ParseCommentBlock(SplitOn(block.comment, NL))
        kind == ChunkKind(block.code)
    IN  CASE kind = "function" ->
               << FunctionEntry(block.code, FuncSearch(block.code, TRUE)[1], pcomment, fname) >>
          [] kind = "methodmap" ->
               << MethodmapEntry(block.code, MethodmapMatch(block.code)[1], pcomment, fname) >>
          [] kind = "typedef" ->
               << TypedefEntry(TypedefMatch(block.code)[1], pcomment, fname) >>
          [] OTHER -> <<>>

\* the loop over the blocks from token i of the content on
RECURSIVE ScanBlocks(_, _, _)
ScanBlocks(s, i, fname) ==
    LET b == BlockFrom(s, i)
    IN  IF b = <<>> THEN <<>>
        ELSE BlockEntries(b[1], fname) \o ScanBlocks(s, b[1].next, fname)

\* parse_include_file(filepath, filename), given the text read from filepath
ParseIncludeFile(text, fname) == ScanBlocks(NormalizeEOL(text), 1, fname)

-----------------------------------------------------------------------------
(* main                                                                    *)

\* file.endswith('.inc')
EndsWithInc(file) == file \in {"a.inc", "b.inc"}

\* a check of the directory that lets every path through
IsDirAlways == TRUE

\* os.path.isdir(args.include_dir)
IsDir == dir_exists

\* an extend that puts the new entries before the old ones
ExtendFront(acc, entries) == entries \o acc

\* all_api_data.extend(entries)
Extend(acc, entries) == acc \o entries

\* an except clause that throws away what was gathered so far
OnParseFailureReset(acc) == <<>>

\* the except clause of the loop: the failure is printed, all_api_data is not touched
OnParseFailure(acc) == acc

-----------------------------------------------------------------------------
(* The inputs                                                              *)

\* the lines a comment body is made of
BodyLines ==
    { <<"Does", "X.">>,
      <<>>,
      <<"@param", "a", "the", "value">>,
      <<"@return", "true", "on", "success">>,
      <<"@note", "n">>,
      <<"more", "@x">>,
      <<"@param", "a", "second">>,
      <<"@return">> }

\* a comment of the given body lines, the delimiters on lines of their own
BlockStyle(ls) ==
    << <<"/**">> >> \o [i \in 1..Len(ls) |-> <<"*">> \o ls[i]] \o << <<"*/">> >>

\* a comment of the given body lines, the delimiters on the first and the last line
InlineStyle(ls) ==
    IF ls = <<>> THEN << <<"/**", "*/">> >>
    ELSE [i \in 1..Len(ls) |->
            (IF i = 1 THEN <<"/**">> ELSE <<"*">>) \o ls[i]
            \o (IF i = Len(ls) THEN <<"*/">> ELSE <<>>)]

CommentInputs ==
    UNION { { BlockStyle(ls), InlineStyle(ls) } :
            ls \in UNION { [1..n -> BodyLines] : n \in 0..MaxLines } }

\* the pieces a parameter list is made of
Pieces ==
    { <<"int", "a">>,
      <<"const", "char[]", "b">>,
      <<"float", "&c">>,
      <<"int", "d", "=", "5">>,
      <<"any", "...">>,
      <<"Handle:h">>,
      <<>>,
      <<"float", "vec[3]">>,
      <<"const", "x">> }

\* what stands between two parameters
Separators == { <<",">>, <<",", NL, TAB>> }

ParamsInputs ==
    { Join(ps, sep) : ps \in UNION { [1..n -> Pieces] : n \in 0..MaxParams },
                      sep \in Separators }
    \cup { <<NL, TAB>> }

\* the comments a parameter list is parsed with
ParamComments ==
    { NoComment,
      [description |-> <<>>,
       tags |-> [EmptyTags EXCEPT !.param =
                   << [name |-> "a", description |-> <<"the", "value">>],
                      [name |-> "a", description |-> <<"second">>] >>]] }

\* the segments a file is made of
cDoc == <<"/**", "Does", "X.", NL, "*", "@param", "a", "the", "value", NL,
          "*", "@return", "true", "on", "success", "*/", NL>>
cTag1 == <<"/**", NL, "*", "@param", "a", "the", "value", NL, "*", "@return", "r", NL,
           "*/", NL>>
fDoX == <<"native", "bool", "DoX", "(", "int", "a", ");", NL>>
fMulti == <<"stock", "int", "Go", "(", "int", "a", ",", "\r\n", TAB, "int", "b", ");", "\r\n">>
prose == <<"some", "prose", NL>>
mmInd == <<"methodmap", "Foo", "<", "Bar", NL, "{", NL,
           TAB, "public", "property", "int", "Size", "{", "}", NL,
           TAB, "public", "native", "void", "Go", "(", ");", NL, "};", NL>>
mmCol0 == <<"methodmap", "Foo", NL, "{", NL, "public", "void", "Go", "(", ");", NL, "};", NL>>
mmLine == <<"methodmap", "Foo", "<", "Bar", "{", "public", "native", "void", "Go", "(", ");",
            "public", "property", "int", "Size", "{", "...", "}", "};", NL>>
tdef == <<"typedef", "Cb", "=", "function", "void", "(", "int", "a", ");", NL>>

Segments == {cDoc, cTag1, fDoX, fMulti, prose, mmInd, mmCol0, mmLine, tdef}

FileInputs ==
    { Join(ss, <<>>) : ss \in UNION { [1..n -> Segments] : n \in 0..MaxSegs } }

\* the files of the directory walk: where they are, what they hold, and whether
\* open() and read() succeed on them
Roots == {"x", "y"}
FileNames == {"a.inc", "b.inc", "notes.txt"}
Texts == { cTag1 \o prose, cDoc \o tdef \o cTag1 \o fMulti }
\* a text is given to the .inc files that can be read; of the others none is read
FileRecs ==
    { r \in [root : Roots, file : FileNames, text : Texts \cup {<<>>}, readable : BOOLEAN] :
        IF r.file \in {"a.inc", "b.inc"} /\ r.readable
        THEN r.text \in Texts
        ELSE r.text = <<>> /\ (r.file = "notes.txt" => r.readable) }

\* os.walk yields each directory once with all its files, and no path twice
IsWalk(fs) ==
    /\ \A i, j \in 1..Len(fs) :
          i < j => ~(fs[i].root = fs[j].root /\ fs[i].file = fs[j].file)
    /\ \A i, j, k \in 1..Len(fs) :
          (i < j /\ j < k /\ fs[i].root = fs[k].root) => fs[j].root = fs[i].root

Walks == { fs \in UNION { [1..n -> FileRecs] : n \in 0..MaxFiles } : IsWalk(fs) }

-----------------------------------------------------------------------------
(* parse_comment_block called on its own                                   *)

IdleComment == comment_lines = <<>> /\ parsed = NoComment /\ cpc = "idle"
IdleParams  == params_str = <<>> /\ parsed_comment = NoComment /\ param_list = <<>>
               /\ ppc = "idle"
IdleFile    == content = <<>> /\ filename = "" /\ pos = 0 /\ api_entries = <<>>
               /\ nblocks = 0 /\ fpc = "idle"
IdleMain    == dir_exists = FALSE /\ files = <<>> /\ idx = 0 /\ all_api_data = <<>>
               /\ output = <<>> /\ writes = 0 /\ log = <<>> /\ pc = "idle"

InitComment ==
    /\ comment_lines \in CommentInputs
    /\ parsed = NoComment
    /\ cpc = "call"
    /\ IdleParams /\ IdleFile /\ IdleMain

CallParseCommentBlock ==
    /\ cpc = "call"
    /\ parsed' = ParseCommentBlock(comment_lines)
    /\ cpc' = "done"
    /\ UNCHANGED <<comment_lines, paramVars, fileVars, mainVars>>

NextComment == CallParseCommentBlock

SpecComment == InitComment /\ [][NextComment]_vars

-----------------------------------------------------------------------------
(* parse_params_string called on its own                                   *)

InitParams ==
    /\ params_str \in ParamsInputs
    /\ parsed_comment \in ParamComments
    /\ param_list = <<>>
    /\ ppc = "call"
    /\ IdleComment /\ IdleFile /\ IdleMain

CallParseParamsString ==
    /\ ppc = "call"
    /\ param_list' = ParseParamsString(params_str, parsed_comment)
    /\ ppc' = "done"
    /\ UNCHANGED <<params_str, parsed_comment, commentVars, fileVars, mainVars>>

NextParams == CallParseParamsString

SpecParams == InitParams /\ [][NextParams]_vars

-----------------------------------------------------------------------------
(* parse_include_file, one loop turn at a time                             *)

InitFile ==
    /\ content \in FileInputs
    /\ filename = "a.inc"
    /\ pos = 0
    /\ api_entries = <<>>
    /\ nblocks = 0
    /\ fpc = "open"
    /\ IdleComment /\ IdleParams /\ IdleMain

\* the file is read, its line endings are normalized, the search begins
ReadFile ==
    /\ fpc = "open"
    /\ content' = NormalizeEOL(content)
    /\ pos' = 1
    /\ api_entries' = <<>>
    /\ fpc' = "loop"
    /\ UNCHANGED <<filename, nblocks, commentVars, paramVars, mainVars>>

\* the block the search finds from pos on (there is one)
CurrentBlock == BlockFrom(content, pos)[1]

\* the end of every loop turn: what the block yields is appended, the search goes on
\* behind the block
TurnDone ==
    /\ api_entries' = api_entries \o BlockEntries(CurrentBlock, filename)
    /\ pos' = CurrentBlock.next
    /\ nblocks' = nblocks + 1
    /\ UNCHANGED <<content, filename, fpc, commentVars, paramVars, mainVars>>

\* a loop turn for a chunk in which FUNC_REGEX finds a declaration
ScanFunction ==
    /\ fpc = "loop"
    /\ BlockFrom(content, pos) # <<>>
    /\ ChunkKind(CurrentBlock.code) = "function"
    /\ TurnDone

\* a loop turn for a chunk that is no function and begins with a methodmap header
ScanMethodmap ==
    /\ fpc = "loop"
    /\ BlockFrom(content, pos) # <<>>
    /\ ChunkKind(CurrentBlock.code) = "methodmap"
    /\ TurnDone

\* a loop turn for a chunk that is neither and begins with a typedef
ScanTypedef ==
    /\ fpc = "loop"
    /\ BlockFrom(content, pos) # <<>>
    /\ ChunkKind(CurrentBlock.code) = "typedef"
    /\ TurnDone

\* a loop turn for a chunk none of the patterns matches
ScanNoMatch ==
    /\ fpc = "loop"
    /\ BlockFrom(content, pos) # <<>>
    /\ ChunkKind(CurrentBlock.code) = "none"
    /\ TurnDone

\* no block is left: return api_entries
FileReturn ==
    /\ fpc = "loop"
    /\ BlockFrom(content, pos) = <<>>
    /\ fpc' = "returned"
    /\ UNCHANGED <<content, filename, pos, api_entries, nblocks,
                   commentVars, paramVars, mainVars>>

NextFile ==
    \/ ReadFile
    \/ ScanFunction
    \/ ScanMethodmap
    \/ ScanTypedef
    \/ ScanNoMatch
    \/ FileReturn

SpecFile == InitFile /\ [][NextFile]_vars

-----------------------------------------------------------------------------
(* main: the directory walk                                                *)

Init ==
    /\ dir_exists \in BOOLEAN
    /\ files \in Walks
    /\ (~dir_exists => files = <<>>)
    /\ idx = 0
    /\ all_api_data = <<>>
    /\ output = <<>>
    /\ writes = 0
    /\ log = <<>>
    /\ pc = "start"
    /\ IdleComment /\ IdleParams /\ IdleFile

\* the directory is missing: the error is printed and main returns
DirMissing ==
    /\ pc = "start"
    /\ ~IsDir
    /\ log' = Append(log, [msg |-> "Error: Directory not found", file |-> ""])
    /\ pc' = "done"
    /\ UNCHANGED <<dir_exists, files, idx, all_api_data, output, writes,
                   commentVars, paramVars, fileVars>>

\* all_api_data = [] and the walk begins
StartWalk ==
    /\ pc = "start"
    /\ IsDir
    /\ all_api_data' = <<>>
    /\ idx' = 1
    /\ pc' = "walk"
    /\ UNCHANGED <<dir_exists, files, output, writes, log,
                   commentVars, paramVars, fileVars>>

\* a file whose name does not end with .inc is passed over
SkipFile ==
    /\ pc = "walk"
    /\ idx <= Len(files)
    /\ ~EndsWithInc(files[idx].file)
    /\ idx' = idx + 1
    /\ UNCHANGED <<dir_exists, files, all_api_data, output, writes, log, pc,
                   commentVars, paramVars, fileVars>>

\* a file is parsed and its entries are added
ParseFile ==
    /\ pc = "walk"
    /\ idx <= Len(files)
    /\ EndsWithInc(files[idx].file)
    /\ files[idx].readable
    /\ LET entries == ParseIncludeFile(files[idx].text, files[idx].file)
       IN  all_api_data' = IF entries # <<>> THEN Extend(all_api_data, entries)
                           ELSE all_api_data
    /\ idx' = idx + 1
    /\ UNCHANGED <<dir_exists, files, output, writes, log, pc,
                   commentVars, paramVars, fileVars>>

\* parse_include_file raises: the exception is caught and printed
ParseFileFails ==
    /\ pc = "walk"
    /\ idx <= Len(files)
    /\ EndsWithInc(files[idx].file)
    /\ ~files[idx].readable
    /\ all_api_data' = OnParseFailure(all_api_data)
    /\ log' = Append(log, [msg |-> "Failed to parse", file |-> files[idx].file])
    /\ idx' = idx + 1
    /\ UNCHANGED <<dir_exists, files, output, writes, pc,
                   commentVars, paramVars, fileVars>>

\* the walk is over: json.dump(all_api_data) to the output file
WriteOutput ==
    /\ pc = "walk"
    /\ idx > Len(files)
    /\ output' = all_api_data
    /\ writes' = writes + 1
    /\ pc' = "done"
    /\ UNCHANGED <<dir_exists, files, idx, all_api_data, log,
                   commentVars, paramVars, fileVars>>

Next ==
    \/ DirMissing
    \/ StartWalk
    \/ SkipFile
    \/ ParseFile
    \/ ParseFileFails
    \/ WriteOutput

Spec == Init /\ [][Next]_vars

-----------------------------------------------------------------------------
(* What the claims speak of                                                *)

\* all the blocks of a text, in the order the search finds them
RECURSIVE BlocksFrom(_, _)
BlocksFrom(s, i) ==
    LET b == BlockFrom(s, i)
    IN  IF b = <<>> THEN <<>> ELSE b \o BlocksFrom(s, b[1].next)

AllBlocks(s) == BlocksFrom(s, 1)

\* the first line of a comment body that begins with a tag, the first line of the
\* body included; 0 when the body has no such line
FirstTagLine(body) ==
    IF \E i \in 1..Len(body) : IsTagLine(body[i])
    THEN CHOOSE i \in 1..Len(body) :
            IsTagLine(body[i]) /\ \A k \in 1..(i - 1) : ~IsTagLine(body[k])
    ELSE 0

\* the text of the body before that line
TextBeforeTags(body) ==
    LET i == FirstTagLine(body)
    IN  Join(StripLines(IF i = 0 THEN body ELSE SubSeq(body, 1, i - 1)), <<NL>>)

\* the tags of the body from that line on
TagsFromFirstTagLine(body) ==
    LET i == FirstTagLine(body)
    IN  ApplyTags(EmptyTags,
                  TagMatches(IF i = 0 THEN <<>> ELSE SubSeq(body, i, Len(body))))

\* an entry of a function declaration
IsFunctionEntry(e) == e.type \in FuncKeywords

\* a loop turn of parse_include_file is about to be taken
AtBlock == fpc = "loop" /\ BlockFrom(content, pos) # <<>>

\* a is a prefix of b
IsPrefix(a, b) == Len(a) <= Len(b) /\ SubSeq(b, 1, Len(a)) = a

-----------------------------------------------------------------------------
(* C10 *)

\* C10: for every comment block, the description parse_comment_block returns is
\* the text of the normalized body before the first line that begins with a tag,
\* and the tags it returns are those parsed from that line on, also when that
\* line is the first line of the body.
C10_SplitAtFirstTagLine ==
    cpc = "done" =>
        LET body == FullComment(comment_lines)
        IN  /\ parsed.description = TextBeforeTags(body)
            /\ parsed.tags = TagsFromFirstTagLine(body)

-----------------------------------------------------------------------------
(* C1 *)

\* C1: when a comment block is directly followed by a function-like declaration,
\* the loop turn appends one Function entry whose name, kind and return type are
\* the declaration's, whose comment is the description of the block (the text
\* before its first tag line), whose tags.return is the content of the block's
\* @return tag, and whose parameters carry the descriptions of the block's
\* @param tags of their names.
C1_DocAttachedToNextDeclaration ==
    [][ (AtBlock /\ FuncMatchAt(CurrentBlock.code, 1) # <<>>) =>
          /\ Len(api_entries') = Len(api_entries) + 1
          /\ LET e == Last(api_entries')
                 m == FuncMatchAt(CurrentBlock.code, 1)[1]
                 body == FullComment(SplitOn(CurrentBlock.comment, NL))
                 tags == TagsFromFirstTagLine(body)
             IN  /\ e.name = m.name
                 /\ e.type = m.type
                 /\ e.return_type = m.return_type
                 /\ e.comment = TextBeforeTags(body)
                 /\ e.tags.return = tags.return
                 /\ \A k \in 1..Len(e.params) :
                       (\E t \in 1..Len(tags.param) : tags.param[t].name = e.params[k].name)
                       => e.params[k].description
                          = CommentParamGet(tags.param, e.params[k].name)
      ]_vars

-----------------------------------------------------------------------------
(* C2 *)

\* C2, as claimed: when the file has been parsed, the Function entries are, one
\* for one and in order, the declarations of the file that match the function
\* pattern, each with the matched text, its line breaks replaced by blanks, as
\* its full_declaration.
C2_EveryDeclarationOneEntry ==
    fpc = "returned" =>
        LET decls == FuncFindAll(content, 1, TRUE)
            fe == SelectSeq(api_entries, IsFunctionEntry)
        IN  /\ Len(fe) = Len(decls)
            /\ \A k \in 1..Len(fe) :
                  fe[k].full_declaration
                  = ReplaceNL(SubSeq(content, decls[k].start, decls[k].end))

\* C2, amended: when the file has been parsed, the Function entries are, one for
\* one and in order, the comment blocks whose chunk holds a match of the function
\* pattern; the entry of such a block has the name of the first match in the
\* chunk, and its full_declaration is the matched text with a blank wherever the
\* text has a line break and the token of the text everywhere else.
C2_FirstDeclarationOfEachBlock ==
    fpc = "returned" =>
        LET fb == SelectSeq(AllBlocks(content), LAMBDA b : FuncSearch(b.code, TRUE) # <<>>)
            fe == SelectSeq(api_entries, IsFunctionEntry)
        IN  /\ Len(fe) = Len(fb)
            /\ \A k \in 1..Len(fe) :
                  LET m == FuncSearch(fb[k].code, TRUE)[1]
                      src == SubSeq(fb[k].code, m.start, m.end)
                      d == fe[k].full_declaration
                  IN  /\ fe[k].name = m.name
                      /\ Len(d) = Len(src)
                      /\ \A i \in 1..Len(src) :
                            d[i] = IF src[i] = NL THEN SP ELSE src[i]

\* C2, witness: a file has been parsed that holds a declaration over two lines
\* behind a comment block, and a declaration no entry was made for
C2_Witness ==
    /\ fpc = "returned"
    /\ \E k \in 1..Len(api_entries) :
          /\ IsFunctionEntry(api_entries[k])
          /\ \E i \in 1..Len(api_entries[k].full_declaration) :
                api_entries[k].full_declaration[i] = SP
    /\ Len(FuncFindAll(content, 1, TRUE)) > Len(SelectSeq(api_entries, IsFunctionEntry))

-----------------------------------------------------------------------------
(* C3 *)

\* C3: a loop turn appends at most one entry and leaves the earlier ones alone:
\* a Function entry if the chunk matches the function pattern, else a Methodmap
\* entry if it begins with a methodmap header, else a Typedef entry if it begins
\* with a typedef, else nothing; and there are never more entries than blocks.
C3_AtMostOneEntryByPriority ==
    [][ AtBlock =>
          LET code == CurrentBlock.code
              isF == FuncSearch(code, TRUE) # <<>>
              isM == MethodmapMatch(code) # <<>>
              isT == TypedefMatch(code) # <<>>
              one == /\ Len(api_entries') = Len(api_entries) + 1
                     /\ SubSeq(api_entries', 1, Len(api_entries)) = api_entries
          IN  /\ isF => one /\ IsFunctionEntry(Last(api_entries'))
              /\ (~isF /\ isM) => one /\ Last(api_entries').type = "methodmap"
              /\ (~isF /\ ~isM /\ isT) => one /\ Last(api_entries').type = "typedef"
              /\ (~isF /\ ~isM /\ ~isT) => api_entries' = api_entries
              /\ Len(api_entries') <= nblocks'
      ]_vars

\* C3, witness: a file has been parsed in which one chunk is prose and yielded
\* nothing, and another holds a methodmap with a function declaration at the start
\* of a line, for which the function pattern came first
C3_Witness ==
    /\ fpc = "returned"
    /\ Len(api_entries) < nblocks
    /\ \E k \in 1..Len(AllBlocks(content)) :
          ChunkKind(AllBlocks(content)[k].code) = "none"
    /\ \E k \in 1..Len(AllBlocks(content)) :
          /\ MethodmapMatch(AllBlocks(content)[k].code) # <<>>
          /\ FuncSearch(AllBlocks(content)[k].code, TRUE) # <<>>
    /\ \E k \in 1..Len(api_entries) : IsFunctionEntry(api_entries[k])

-----------------------------------------------------------------------------
(* C4 *)

\* the text of a chunk between its first "{" and its last "};"
BracedBody(code) ==
    LET b == Find(code, 1, "{")
        ks == { k \in 1..Len(code) : code[k] = "};" /\ k > b }
    IN  IF b = 0 \/ ks = {} THEN <<>>
        ELSE SubSeq(code, b + 1, (CHOOSE k \in ks : \A j \in ks : j <= k) - 1)

\* the function-like declarations of a text wherever they begin, at the start of
\* a line or not
RECURSIVE DeclarationsAnywhere(_, _)
DeclarationsAnywhere(s, i) ==
    IF i > Len(s) THEN <<>>
    ELSE IF FuncMatchAt(s, i) # <<>>
    THEN FuncMatchAt(s, i) \o DeclarationsAnywhere(s, FuncMatchAt(s, i)[1].end + 1)
    ELSE DeclarationsAnywhere(s, i + 1)

\* the `public property <type> <name>` of a text, wherever they are
PropertiesAnywhere(s) ==
    LET at == { i \in 1..Len(s) :
                  /\ s[i] = "public" /\ Tok(s, i + 1) = "property"
                  /\ Tok(s, i + 2) \in Words /\ WordPrefix(Tok(s, i + 3)) # "" }
    IN  { [type |-> s[i + 2], name |-> WordPrefix(s[i + 3])] : i \in at }

\* C4: a chunk that holds a methodmap declaration yields one Methodmap entry
\* with the parent of the header as inherits, one method for every function-like
\* declaration of the body, indented or not, and one property, with its type, for
\* every `public property <type> <name>` of the body.
C4_MethodmapMembers ==
    [][ (AtBlock /\ MethodmapMatch(CurrentBlock.code) # <<>>) =>
          /\ Len(api_entries') = Len(api_entries) + 1
          /\ LET e == Last(api_entries')
                 body == BracedBody(CurrentBlock.code)
                 decls == DeclarationsAnywhere(body, 1)
             IN  /\ e.type = "methodmap"
                 /\ e.inherits = MethodmapMatch(CurrentBlock.code)[1].inherits
                 /\ Len(e.methods) = Len(decls)
                 /\ \A k \in 1..Len(decls) : e.methods[k].name = decls[k].name
                 /\ { [type |-> e.properties[k].type, name |-> e.properties[k].name] :
                        k \in 1..Len(e.properties) } = PropertiesAnywhere(body)
                 /\ Len(e.properties) = Cardinality(PropertiesAnywhere(body))
      ]_vars

-----------------------------------------------------------------------------
(* C5 *)

\* the comma-separated pieces of the parameter list that match the parameter pattern
MatchingPieces ==
    SelectSeq(SplitOn(params_str, ","), LAMBDA p : ParamMatch(Strip(p)) # <<>>)

\* C5: parse_params_string returns one Parameter for each comma-separated piece
\* that matches the parameter pattern, none for the others, in the order of the
\* pieces; a list that is empty or all blanks yields the empty sequence.
C5_ParamsInSourceOrder ==
    ppc = "done" =>
        /\ Len(param_list) = Len(MatchingPieces)
        /\ \A k \in 1..Len(param_list) :
              /\ param_list[k].name = ParamMatch(Strip(MatchingPieces[k]))[1].name
              /\ param_list[k].type = ParamMatch(Strip(MatchingPieces[k]))[1].type
        /\ (Strip(params_str) = <<>> => param_list = <<>>)

\* C5, witness: a list of three pieces has been parsed whose second piece is not
\* empty and does not match and whose first and last piece name different parameters
C5_Witness ==
    /\ ppc = "done"
    /\ Len(SplitOn(params_str, ",")) = 3
    /\ Strip(SplitOn(params_str, ",")[2]) # <<>>
    /\ ParamMatch(Strip(SplitOn(params_str, ",")[2])) = <<>>
    /\ Len(param_list) = 2
    /\ param_list[1].name # param_list[2].name

-----------------------------------------------------------------------------
(* C6 *)

\* what the files 1..n of the walk contribute: the entries of every .inc file that
\* could be read, in the order of the walk, and nothing for the others
RECURSIVE EntriesOfFiles(_)
EntriesOfFiles(n) ==
    IF n = 0 THEN <<>>
    ELSE EntriesOfFiles(n - 1)
         \o (IF EndsWithInc(files[n].file) /\ files[n].readable
             THEN ParseIncludeFile(files[n].text, files[n].file)
             ELSE <<>>)

\* the .inc files among the files 1..n of the walk whose scan raises
FailedFiles(n) == { i \in 1..n : EndsWithInc(files[i].file) /\ ~files[i].readable }

\* C6: a file whose scan raises leaves the accumulator as it was and the walk goes
\* on: after each file the accumulator holds the entries of the files scanned so
\* far that did not fail, one failure is logged for each file that failed, and
\* the final output holds the entries of all the files that did not fail.
C6_FailedFileSkipped ==
    (dir_exists /\ pc \in {"walk", "done"}) =>
        /\ all_api_data = EntriesOfFiles(idx - 1)
        /\ Cardinality({ k \in 1..Len(log) : log[k].msg = "Failed to parse" })
           = Cardinality(FailedFiles(idx - 1))
        /\ pc = "done" => (idx = Len(files) + 1 /\ output = EntriesOfFiles(Len(files)))

\* C6, witness: the run is over, a file that failed stands between two files that
\* were read and gave entries, and the output is not empty
C6_Witness ==
    /\ pc = "done" /\ dir_exists
    /\ \E i, j, k \in 1..Len(files) :
          /\ i < j /\ j < k
          /\ j \in FailedFiles(Len(files))
          /\ EndsWithInc(files[i].file) /\ files[i].readable
          /\ ParseIncludeFile(files[i].text, files[i].file) # <<>>
          /\ EndsWithInc(files[k].file) /\ files[k].readable
          /\ ParseIncludeFile(files[k].text, files[k].file) # <<>>
    /\ output # <<>>

-----------------------------------------------------------------------------
(* C7 *)

\* the files of the walk that were scanned to the end and named as source_file
\* by entry e
ScannedFilesNamedBy(e) ==
    { i \in 1..(idx - 1) : /\ EndsWithInc(files[i].file) /\ files[i].readable
                           /\ files[i].file = e.source_file }

\* C7: the source_file of every entry of the accumulator names the file whose
\* scan produced the entry and no other scanned file.
C7_SourceFileNamesOneFile ==
    (dir_exists /\ pc \in {"walk", "done"}) =>
        \A k \in 1..Len(all_api_data) :
            Cardinality(ScannedFilesNamedBy(all_api_data[k])) = 1

-----------------------------------------------------------------------------
(* C8 *)

\* the entries of one file, block after block
RECURSIVE EntriesInBlockOrder(_, _)
EntriesInBlockOrder(blocks, fname) ==
    IF blocks = <<>> THEN <<>>
    ELSE BlockEntries(Head(blocks), fname) \o EntriesInBlockOrder(Tail(blocks), fname)

\* the entries of the files that were read, file after file in the order of the walk
RECURSIVE EntriesInVisitOrder(_)
EntriesInVisitOrder(fs) ==
    IF fs = <<>> THEN <<>>
    ELSE (IF EndsWithInc(Head(fs).file) /\ Head(fs).readable
          THEN EntriesInBlockOrder(AllBlocks(NormalizeEOL(Head(fs).text)), Head(fs).file)
          ELSE <<>>)
         \o EntriesInVisitOrder(Tail(fs))

\* C8: every step leaves what the accumulator held as a prefix of what it holds
\* afterwards, and the step that writes the output writes the entries of the
\* files that were read, in the order of the walk, each file's entries in the
\* order of its comment blocks.
C8_AppendOnlyInVisitOrder ==
    [][ /\ IsPrefix(all_api_data, all_api_data')
        /\ (pc = "walk" /\ pc' = "done") => output' = EntriesInVisitOrder(files)
      ]_vars

\* C8, witness: the output has been written and holds entries of two files, the
\* second of which added to what the first had put there
C8_Witness ==
    /\ pc = "done" /\ writes = 1
    /\ \E i, j \in 1..Len(files) :
          /\ i < j
          /\ EndsWithInc(files[i].file) /\ files[i].readable
          /\ EndsWithInc(files[j].file) /\ files[j].readable
          /\ Len(ParseIncludeFile(files[i].text, files[i].file)) >= 2
          /\ Len(ParseIncludeFile(files[j].text, files[j].file)) >= 2
          /\ files[i].file # files[j].file
    /\ Len(output) >= 4

-----------------------------------------------------------------------------
(* C9 *)

\* the steps main has before it at most: one to begin, one for each file that
\* is left, one to write
StepsLeft ==
    CASE pc = "start" -> Len(files) + 3
      [] pc = "walk" -> Len(files) + 2 - idx
      [] pc = "done" -> 0

\* the guard of one of the steps of main holds
StepPossible ==
    \/ pc = "start"
    \/ pc = "walk" /\ idx \in 1..Len(files)
    \/ pc = "walk" /\ idx = Len(files) + 1

C9_MissingDirectoryEnds ==
    pc = "done" /\ ~dir_exists /\ writes = 0

-----------------------------------------------------------------------------
(* C11 *)

\* the text written after the '=' of a piece; None when the piece has no '='
DefaultWritten(piece) ==
    LET p == NoWS(Strip(piece))
        eq == Find(p, 1, "=")
    IN  IF eq = 0 THEN None ELSE SubSeq(p, eq + 1, Len(p))

\* C11: the Parameter of a piece `[const] <type> [&]<name> = <default>` has as
\* default the text written after the '=', and the Parameter of a piece without
\* an '=' has no default (None).
C11_DefaultIsTextAfterEquals ==
    ppc = "done" =>
        /\ Len(param_list) = Len(MatchingPieces)
        /\ \A k \in 1..Len(param_list) :
              param_list[k].default = DefaultWritten(MatchingPieces[k])

====
